---- MODULE Spec2Model ----
(***************************************************************************)
(* A model of internal/pkg/podman/podman.go (package podman): the varlink  *)
(* session Handle, its interactive Terminal attach, the prefix queries on  *)
(* containers and volumes, and the retrying PullImage.                     *)
(*                                                                         *)
(* Three specifications share the module, one per part of the package:    *)
(*   SpecTerminal  Handle.Terminal and the goroutines it starts           *)
(*   SpecQuery     GetPrefixedContainers/Volumes, FindPrefixedContainer   *)
(*   SpecPull      Handle.PullImage                                       *)
(***************************************************************************)
EXTENDS Integers, Sequences, FiniteSets, TLC

(***************************************************************************)
(* Bounds of the model.                                                    *)
(***************************************************************************)
\* number of Terminal invocations made on the handle, one after the other
MaxCalls == 1
\* number of containers the engine holds at a time
MaxContainers == 2
\* number of volumes the engine holds at a time
MaxVolumes == 2

Calls == 1..MaxCalls

(***************************************************************************)
(* Error values.  Nil is Go's nil error; every other value is a distinct   *)
(* non-nil error, named after the call that produced it.                   *)
(***************************************************************************)
Nil == "nil"
None == "none"

\* the four goroutines of Terminal, in the order of their go statements
Activities == <<"intr", "r2l", "l2r", "exec">>
ActivitySet == {Activities[i] : i \in 1..Len(Activities)}
Senders == {"r2l", "l2r", "exec"}

\* what each sending goroutine may hand to errChan: io.Copy returns nil on a
\* clean end of stream and the read/write error otherwise; the exec call
\* returns nil or the remote error
Outcomes(a) ==
  CASE a = "r2l" -> {Nil, "r2lErr"}
    [] a = "l2r" -> {Nil, "l2rErr"}
    [] a = "exec" -> {Nil, "execErr"}

VARIABLES
  \* ---- Terminal ----
  call,        \* index of the current (or last) Terminal invocation, 0 before the first
  pc,          \* position of the calling goroutine inside Terminal
  act,         \* act[c][a]: position of goroutine a of invocation c
  val,         \* val[c][a]: the error goroutine a of invocation c sends
  errChan,     \* errChan[c]: the unbuffered channel, [closed, sendq]
  result,      \* result[c]: the value Terminal received / returns, None before
  attached,    \* attached[c]: the I/O socket file: "unopened", "open", "closed"
  rawSet,      \* rawSet[c]: terminal.MakeRaw succeeded in invocation c
  restored,    \* restored[c]: the deferred terminal.Restore ran
  termMode,    \* mode of the caller's terminal: "cooked" or "raw"
  state,       \* state[c]: the terminal mode MakeRaw saved, None before
  execIssued,  \* execIssued[c]: the ExecContainer RPC of invocation c was sent
  sends,       \* sends[c][a]: how many send statements goroutine a has executed
  first,       \* first[c]: the goroutine that reached its send/close first
  closedEarly, \* closedEarly[c]: errChan was closed before any value was received
  trace,       \* trace[c]: the steps the calling goroutine performed, in order
  crashed,     \* the process died of a goroutine panic
  \* ---- the engine, and the queries on it ----
  containers,  \* the engine's containers in the order ListContainers reports them
  volumes,     \* the engine's volumes in the order GetVolumes reports them
  query,       \* the last prefix query: its arguments, what the RPC gave, its result
  volRemove,   \* the last VolumeRemove request sent
  removedSole, \* prefixes whose only matching container was removed, none created since
  removal,     \* the RemoveVolumes call just made: its argument, the volumes before, its RPCs
  \* ---- PullImage ----
  pullPc,      \* position inside PullImage: "idle", "sleep", "call", "done"
  ref,         \* the image reference being pulled
  plan,        \* plan[i]: what the engine answers to the i-th pull RPC of the run
  idx,         \* index into tries of the current loop iteration (from 1)
  rpcs,        \* number of PullImage RPC calls made so far
  slept,       \* the delays taken so far, in seconds, in order
  pullErr,     \* the value PullImage returned, None before
  \* ---- the Handle ----
  hnd,         \* the Handle NewHandle returned, [ctx, conn]; NoHandle before
  connState,   \* the varlink connection: "none", "open", "closed"
  given,       \* the socket address the caller of NewHandle asked for
  dials,       \* the addresses handed to varlink.NewConnection, in order
  newErr,      \* the error NewHandle returned, None before
  lastCall,    \* the last single-RPC call made through the handle
  \* ---- SprintError ----
  sprintArgs,  \* the arguments of the SprintError call: [methodname, err]
  sprinted     \* the string SprintError returned, None before

tvars == <<call, pc, act, val, errChan, result, attached, rawSet, restored,
           termMode, state, execIssued, sends, first, closedEarly, trace, crashed>>

qvars == <<containers, volumes, query, volRemove, removedSole, removal>>

pvars == <<pullPc, ref, plan, idx, rpcs, slept, pullErr>>

hvars == <<hnd, connState, given, dials, newErr, lastCall>>

svars == <<sprintArgs, sprinted>>

vars == <<tvars, qvars, pvars, hvars, svars>>

\* invocation c has returned to its caller
Returned(c) == c < call \/ (c = call /\ pc = "returned")

\* the calling goroutine of invocation c is parked in the receive on errChan
Receiving(c) == c = call /\ pc = "wait"

TerminalStart ==
  /\ call = 0
  /\ pc = "idle"
  /\ act = [c \in Calls |-> [a \in ActivitySet |-> "none"]]
  /\ val = [c \in Calls |-> [a \in ActivitySet |-> Nil]]
  /\ errChan = [c \in Calls |-> [closed |-> FALSE, sendq |-> <<>>]]
  /\ result = [c \in Calls |-> None]
  /\ attached = [c \in Calls |-> "unopened"]
  /\ rawSet = [c \in Calls |-> FALSE]
  /\ restored = [c \in Calls |-> FALSE]
  /\ termMode = "cooked"
  /\ state = [c \in Calls |-> None]
  /\ execIssued = [c \in Calls |-> FALSE]
  /\ sends = [c \in Calls |-> [a \in ActivitySet |-> 0]]
  /\ first = [c \in Calls |-> None]
  /\ closedEarly = [c \in Calls |-> FALSE]
  /\ trace = [c \in Calls |-> <<>>]
  /\ crashed = FALSE

(***************************************************************************)
(* The unbuffered channel errChan (Go runtime semantics of make, send,     *)
(* receive and close on a channel without buffer).                         *)
(***************************************************************************)

\* the calling goroutine obtains value v from errChan and goes on to its
\* deferred calls
Deliver(c, v) ==
  /\ result' = [result EXCEPT ![c] = v]
  /\ trace' = [trace EXCEPT ![c] = Append(@, "received")]
  /\ pc' = "restore"

\* goroutine a is the first of invocation c to reach its send or close
NoteFirst(c, a) ==
  first' = IF first[c] = None THEN [first EXCEPT ![c] = a] ELSE first

\* errChan <- v by goroutine a: panics on a closed channel, hands v to a
\* parked receiver, and otherwise parks the sender at the tail of the queue
ChanSend(c, a, v) ==
  /\ val' = [val EXCEPT ![c][a] = v]
  /\ sends' = [sends EXCEPT ![c][a] = @ + 1]
  /\ NoteFirst(c, a)
  /\ IF errChan[c].closed
       THEN /\ act' = [act EXCEPT ![c][a] = "panic"]
            /\ UNCHANGED <<errChan, result, trace, pc>>
       ELSE IF Receiving(c)
         THEN /\ act' = [act EXCEPT ![c][a] = "done"]
              /\ Deliver(c, v)
              /\ UNCHANGED errChan
         ELSE /\ act' = [act EXCEPT ![c][a] = "blocked"]
              /\ errChan' = [errChan EXCEPT ![c].sendq = Append(@, a)]
              /\ UNCHANGED <<result, trace, pc>>

\* ChanClose as it would be if the listener reported the interrupt as an
\* error before closing: the parked receiver is woken with that error
ChanCloseDeliversErr(c, a) ==
  /\ NoteFirst(c, a)
  /\ closedEarly' = [closedEarly EXCEPT ![c] = (result[c] = None)]
  /\ errChan' = [errChan EXCEPT ![c] = [closed |-> TRUE, sendq |-> <<>>]]
  /\ act' = [act EXCEPT ![c] =
               [b \in ActivitySet |->
                  IF b = a THEN "done"
                  ELSE IF act[c][b] = "blocked" THEN "panic"
                  ELSE act[c][b]]]
  /\ IF Receiving(c)
       THEN Deliver(c, "intrErr")
       ELSE UNCHANGED <<result, trace, pc>>
  /\ UNCHANGED <<val, sends>>

\* close(errChan) by goroutine a: every parked sender is woken to panic, a
\* parked receiver is woken with the zero value (nil).  A woken sender
\* panics when it next runs (action Panic); until then the other goroutines
\* go on, and a receive finds the channel closed and empty.
ChanClose(c, a) ==
  /\ NoteFirst(c, a)
  /\ closedEarly' = [closedEarly EXCEPT ![c] = (result[c] = None)]
  /\ errChan' = [errChan EXCEPT ![c] = [closed |-> TRUE, sendq |-> <<>>]]
  /\ act' = [act EXCEPT ![c] =
               [b \in ActivitySet |->
                  IF b = a THEN "done"
                  ELSE IF act[c][b] = "blocked" THEN "panic"
                  ELSE act[c][b]]]
  /\ IF Receiving(c)
       THEN Deliver(c, Nil)
       ELSE UNCHANGED <<result, trace, pc>>
  /\ UNCHANGED <<val, sends>>

\* <-errChan by the calling goroutine: the zero value of a closed channel,
\* else the value of the sender parked longest (the runtime keeps parked
\* senders in a first-in first-out queue), else the receiver parks
ChanRecv(c) ==
  IF errChan[c].closed
    THEN /\ Deliver(c, Nil)
         /\ UNCHANGED <<errChan, act>>
    ELSE IF errChan[c].sendq # <<>>
      THEN /\ Deliver(c, val[c][Head(errChan[c].sendq)])
           /\ act' = [act EXCEPT ![c][Head(errChan[c].sendq)] = "done"]
           /\ errChan' = [errChan EXCEPT ![c].sendq = Tail(@)]
      ELSE /\ pc' = "wait"
           /\ UNCHANGED <<errChan, act, result, trace>>

(***************************************************************************)
(* Handle.Terminal: the calling goroutine.                                 *)
(***************************************************************************)

Step(c, name) == trace' = [trace EXCEPT ![c] = Append(@, name)]

\* return err out of Terminal once every deferred call has run
Return(c, err) ==
  /\ result' = [result EXCEPT ![c] = err]
  /\ pc' = "returned"

\* a caller invokes hnd.Terminal(container, args, file)
TerminalCall ==
  /\ ~crashed
  /\ UNCHANGED <<qvars, pvars, hvars, svars>>
  /\ pc \in {"idle", "returned"}
  /\ call < MaxCalls
  /\ call' = call + 1
  /\ pc' = "attach"
  /\ UNCHANGED <<act, val, errChan, result, attached, rawSet, restored,
                 termMode, state, execIssued, sends, first, closedEarly, trace, crashed>>

\* iopodman.Attach().Call(ctx, conn, container, "", false)
Attach ==
  /\ ~crashed
  /\ UNCHANGED <<qvars, pvars, hvars, svars>>
  /\ pc = "attach"
  /\ Step(call, "attach")
  /\ \E err \in {Nil, "attachErr"} :
       IF err # Nil
         THEN Return(call, err)
         ELSE pc' = "sockets" /\ UNCHANGED result
  /\ UNCHANGED <<call, act, val, errChan, attached, rawSet, restored,
                 termMode, state, execIssued, sends, first, closedEarly, crashed>>

\* iopodman.GetAttachSockets().Call(ctx, conn, container)
GetAttachSockets ==
  /\ ~crashed
  /\ UNCHANGED <<qvars, pvars, hvars, svars>>
  /\ pc = "sockets"
  /\ Step(call, "sockets")
  /\ \E err \in {Nil, "socketsErr"} :
       IF err # Nil
         THEN Return(call, err)
         ELSE pc' = "open" /\ UNCHANGED result
  /\ UNCHANGED <<call, act, val, errChan, attached, rawSet, restored,
                 termMode, state, execIssued, sends, first, closedEarly, crashed>>

\* OpenFile as it would be without the return on error: the failure is
\* noted and the function goes on to MakeRaw
OpenFileGoesOn ==
  /\ ~crashed
  /\ UNCHANGED <<qvars, pvars, hvars, svars>>
  /\ pc = "open"
  /\ Step(call, "open")
  /\ \E err \in {Nil, "openErr"} :
       IF err # Nil
         THEN /\ result' = [result EXCEPT ![call] = err]
              /\ pc' = "makeraw"
              /\ UNCHANGED attached
         ELSE /\ attached' = [attached EXCEPT ![call] = "open"]
              /\ pc' = "makeraw"
              /\ UNCHANGED result
  /\ UNCHANGED <<call, act, val, errChan, rawSet, restored,
                 termMode, state, execIssued, sends, first, closedEarly, crashed>>

\* os.OpenFile(socks.Io_socket, os.O_RDWR, 0644); defer attached.Close()
OpenFile ==
  /\ ~crashed
  /\ UNCHANGED <<qvars, pvars, hvars, svars>>
  /\ pc = "open"
  /\ Step(call, "open")
  /\ \E err \in {Nil, "openErr"} :
       IF err # Nil
         THEN Return(call, err) /\ UNCHANGED attached
         ELSE /\ attached' = [attached EXCEPT ![call] = "open"]
              /\ pc' = "makeraw"
              /\ UNCHANGED result
  /\ UNCHANGED <<call, act, val, errChan, rawSet, restored,
                 termMode, state, execIssued, sends, first, closedEarly, crashed>>

\* MakeRaw as it would be with defer attached.Close() written after it: a
\* failure returns with no deferred call to run
MakeRawBeforeDefer ==
  /\ ~crashed
  /\ UNCHANGED <<qvars, pvars, hvars, svars>>
  /\ pc = "makeraw"
  /\ Step(call, "makeraw")
  /\ \E err \in {Nil, "rawErr"} :
       IF err # Nil
         THEN /\ result' = [result EXCEPT ![call] = err]
              /\ pc' = "returned"
              /\ UNCHANGED <<rawSet, termMode, state>>
         ELSE /\ rawSet' = [rawSet EXCEPT ![call] = TRUE]
              /\ state' = [state EXCEPT ![call] = termMode]
              /\ termMode' = "raw"
              /\ pc' = "go1"
              /\ UNCHANGED result
  /\ UNCHANGED <<call, act, val, errChan, attached, restored,
                 execIssued, sends, first, closedEarly, crashed>>

\* terminal.MakeRaw(fd); defer terminal.Restore(fd, state).  On failure the
\* function returns through the one deferred call registered so far, Close.
MakeRaw ==
  /\ ~crashed
  /\ UNCHANGED <<qvars, pvars, hvars, svars>>
  /\ pc = "makeraw"
  /\ Step(call, "makeraw")
  /\ \E err \in {Nil, "rawErr"} :
       IF err # Nil
         THEN /\ result' = [result EXCEPT ![call] = err]
              /\ pc' = "close"
              /\ UNCHANGED <<rawSet, termMode, state>>
         ELSE /\ rawSet' = [rawSet EXCEPT ![call] = TRUE]
              /\ state' = [state EXCEPT ![call] = termMode]
              /\ termMode' = "raw"
              /\ pc' = "go1"
              /\ UNCHANGED result
  /\ UNCHANGED <<call, act, val, errChan, attached, restored,
                 execIssued, sends, first, closedEarly, crashed>>

\* the position of the i-th go statement
GoPc(i) == CASE i = 1 -> "go1" [] i = 2 -> "go2" [] i = 3 -> "go3" [] i = 4 -> "go4"

\* errChan := make(chan error) and the four go statements, one at a time
GoStmt(i) ==
  /\ ~crashed
  /\ UNCHANGED <<qvars, pvars, hvars, svars>>
  /\ pc = GoPc(i)
  /\ Step(call, GoPc(i))
  /\ act' = [act EXCEPT ![call][Activities[i]] = "run"]
  /\ pc' = IF i < Len(Activities) THEN GoPc(i + 1) ELSE "recv"
  /\ UNCHANGED <<call, val, errChan, result, attached, rawSet, restored,
                 termMode, state, execIssued, sends, first, closedEarly, crashed>>

\* return <-errChan: the receive
Recv ==
  /\ ~crashed
  /\ UNCHANGED <<qvars, pvars, hvars, svars>>
  /\ pc = "recv"
  /\ ChanRecv(call)
  /\ UNCHANGED <<call, val, attached, rawSet, restored, termMode, state,
                 execIssued, sends, first, closedEarly, crashed>>

\* DeferredRestore as it would be if Restore were called without defer at
\* the end of the function body, which the return statement never reaches
DeferredRestoreMissed ==
  /\ ~crashed
  /\ UNCHANGED <<qvars, pvars, hvars, svars>>
  /\ pc = "restore"
  /\ pc' = "close"
  /\ UNCHANGED <<call, act, val, errChan, result, attached, rawSet, restored,
                 termMode, state, execIssued, sends, first, closedEarly, trace,
                 crashed>>

\* DeferredRestore as it would be with the two defer statements written in
\* the other order: Close runs first, Restore last, then the return
DeferredRestoreAfterClose ==
  /\ ~crashed
  /\ UNCHANGED <<qvars, pvars, hvars, svars>>
  /\ pc = "restore"
  /\ trace' = [trace EXCEPT ![call] = @ \o <<"close", "restore">>]
  /\ attached' = [attached EXCEPT ![call] = "closed"]
  /\ restored' = [restored EXCEPT ![call] = TRUE]
  /\ termMode' = state[call]
  /\ pc' = "returned"
  /\ UNCHANGED <<call, act, val, errChan, result, rawSet, state,
                 execIssued, sends, first, closedEarly, crashed>>

\* deferred terminal.Restore(fd, state): the last deferred call runs first
DeferredRestore ==
  /\ ~crashed
  /\ UNCHANGED <<qvars, pvars, hvars, svars>>
  /\ pc = "restore"
  /\ Step(call, "restore")
  /\ restored' = [restored EXCEPT ![call] = TRUE]
  /\ termMode' = state[call]
  /\ pc' = "close"
  /\ UNCHANGED <<call, act, val, errChan, result, attached, rawSet, state,
                 execIssued, sends, first, closedEarly, crashed>>

\* DeferredClose as it would be with the handle's connection deferred for
\* closing in place of the socket file: defer hnd.conn.Close()
DeferredCloseTakesConn ==
  /\ ~crashed
  /\ UNCHANGED <<qvars, pvars, svars>>
  /\ pc = "close"
  /\ Step(call, "close")
  /\ connState' = "closed"
  /\ pc' = "returned"
  /\ UNCHANGED <<hnd, given, dials, newErr, lastCall>>
  /\ UNCHANGED <<call, act, val, errChan, result, attached, rawSet, restored,
                 termMode, state, execIssued, sends, first, closedEarly, crashed>>

\* deferred attached.Close(), then the return to the caller
DeferredClose ==
  /\ ~crashed
  /\ UNCHANGED <<qvars, pvars, hvars, svars>>
  /\ pc = "close"
  /\ Step(call, "close")
  /\ attached' = [attached EXCEPT ![call] = "closed"]
  /\ pc' = "returned"
  /\ UNCHANGED <<call, act, val, errChan, result, rawSet, restored,
                 termMode, state, execIssued, sends, first, closedEarly, crashed>>

(***************************************************************************)
(* The four goroutines Terminal starts.  They outlive the invocation: no   *)
(* action below asks whether invocation c has returned.                    *)
(***************************************************************************)

\* interrupt := make(chan os.Signal, 1); signal.Notify(interrupt, os.Interrupt)
IntrNotify(c) ==
  /\ ~crashed
  /\ UNCHANGED <<qvars, pvars, hvars, svars>>
  /\ act[c]["intr"] = "run"
  /\ act' = [act EXCEPT ![c]["intr"] = "wait"]
  /\ UNCHANGED <<call, pc, val, errChan, result, attached, rawSet, restored,
                 termMode, state, execIssued, sends, first, closedEarly, trace, crashed>>

\* the operating system delivers an interrupt: the signal is put in the
\* one-slot buffer of every subscribed channel that is still being read.
\* (An interrupt that finds no subscription is handled by whatever the rest
\* of the process installed, and is not an event of this package.)
OSInterrupt ==
  /\ ~crashed
  /\ UNCHANGED <<qvars, pvars, hvars, svars>>
  /\ \E c \in Calls : act[c]["intr"] = "wait"
  /\ act' = [c \in Calls |->
               IF act[c]["intr"] = "wait"
                 THEN [act[c] EXCEPT !["intr"] = "signalled"]
                 ELSE act[c]]
  /\ UNCHANGED <<call, pc, val, errChan, result, attached, rawSet, restored,
                 termMode, state, execIssued, sends, first, closedEarly, trace, crashed>>

\* <-interrupt; close(errChan)
IntrSignal(c) ==
  /\ ~crashed
  /\ UNCHANGED <<qvars, pvars, hvars, svars>>
  /\ act[c]["intr"] = "signalled"
  /\ ChanClose(c, "intr")
  /\ UNCHANGED <<call, attached, rawSet, restored, termMode, state,
                 execIssued, crashed>>

\* _, err := io.Copy(dst, src); errChan <- err   (a is "r2l" or "l2r")
CopyEnd(c, a) ==
  /\ ~crashed
  /\ UNCHANGED <<qvars, pvars, hvars, svars>>
  /\ a \in {"r2l", "l2r"}
  /\ act[c][a] = "run"
  /\ \E err \in Outcomes(a) : ChanSend(c, a, err)
  /\ UNCHANGED <<call, attached, rawSet, restored, termMode, state,
                 execIssued, closedEarly, crashed>>

\* iopodman.ExecContainer().Call(...): the request is sent
ExecCall(c) ==
  /\ ~crashed
  /\ UNCHANGED <<qvars, pvars, hvars, svars>>
  /\ act[c]["exec"] = "run"
  /\ act' = [act EXCEPT ![c]["exec"] = "call"]
  /\ execIssued' = [execIssued EXCEPT ![c] = TRUE]
  /\ UNCHANGED <<call, pc, val, errChan, result, attached, rawSet, restored,
                 termMode, state, sends, first, closedEarly, trace, crashed>>

\* the exec call returns err; errChan <- err
ExecReturn(c) ==
  /\ ~crashed
  /\ UNCHANGED <<qvars, pvars, hvars, svars>>
  /\ act[c]["exec"] = "call"
  /\ \E err \in Outcomes("exec") : ChanSend(c, "exec", err)
  /\ UNCHANGED <<call, attached, rawSet, restored, termMode, state,
                 execIssued, closedEarly, crashed>>

\* a goroutine woken on, or sending on, the closed channel panics with
\* "send on closed channel": the runtime ends the whole process
Panic(c) ==
  /\ ~crashed
  /\ UNCHANGED <<qvars, pvars, hvars, svars>>
  /\ \E a \in ActivitySet : act[c][a] = "panic"
  /\ crashed' = TRUE
  /\ UNCHANGED <<call, pc, act, val, errChan, result, attached, rawSet,
                 restored, termMode, state, execIssued, sends, first, closedEarly, trace>>

NextTerminal ==
  \/ TerminalCall
  \/ Attach
  \/ GetAttachSockets
  \/ OpenFile
  \/ MakeRaw
  \/ \E i \in 1..Len(Activities) : GoStmt(i)
  \/ Recv
  \/ DeferredRestore
  \/ DeferredClose
  \/ \E c \in Calls : IntrNotify(c)
  \/ OSInterrupt
  \/ \E c \in Calls : IntrSignal(c)
  \/ \E c \in Calls, a \in {"r2l", "l2r"} : CopyEnd(c, a)
  \/ \E c \in Calls : ExecCall(c)
  \/ \E c \in Calls : ExecReturn(c)
  \/ \E c \in Calls : Panic(c)


(***************************************************************************)
(* Names.  A Go string is the sequence of its characters, so that a prefix *)
(* test looks at characters.                                               *)
(***************************************************************************)
ContainerNames == {<<"a">>, <<"a", "-", "1">>, <<"A", "b">>, <<"b">>}
ContainerPrefixes == {<<>>, <<"a">>, <<"a", "-", "1">>, <<"b", "b">>}
VolumeNames == {<<"v", "1">>, <<"v", "2">>, <<"V">>}
VolumePrefixes == {<<"v">>, <<"v", "1">>, <<"V", "1">>}

\* unicode.ToLower on the characters in use
Lower(ch) == CASE ch = "A" -> "a" [] ch = "V" -> "v" [] OTHER -> ch
ToLower(str) == [i \in 1..Len(str) |-> Lower(str[i])]

\* iopodman.Container and iopodman.Volume, the fields the package reads
Container(name) == [Id |-> <<"#">> \o name, Names |-> name]
Volume(name) == [Name |-> name, MountPoint |-> <<"/">> \o name]
\* iopodman.Container{}
EmptyContainer == [Id |-> <<>>, Names |-> <<>>]

\* error values of the query operations: nil, the error of a failed RPC, and
\* fmt.Errorf("failed to found the container with name %s", prefixedName)
NoErr == [kind |-> "nil", name |-> <<>>]
RpcErr == [kind |-> "rpc", name |-> <<>>]
NotFoundErr(prefixedName) == [kind |-> "notfound", name |-> prefixedName]

\* HasPrefix as a comparison that ignores case (strings.EqualFold on the head)
HasPrefixFold(str, prefix) ==
  /\ Len(str) >= Len(prefix)
  /\ ToLower(SubSeq(str, 1, Len(prefix))) = ToLower(prefix)

\* HasPrefix as a test that holds when either string starts with the other
HasPrefixEither(str, prefix) ==
  \/ Len(str) >= Len(prefix) /\ SubSeq(str, 1, Len(prefix)) = prefix
  \/ Len(prefix) >= Len(str) /\ SubSeq(prefix, 1, Len(str)) = str

\* strings.HasPrefix(s, prefix):  len(s) >= len(prefix) && s[:len(prefix)] == prefix
HasPrefix(str, prefix) ==
  /\ Len(str) >= Len(prefix)
  /\ SubSeq(str, 1, Len(prefix)) = prefix

(***************************************************************************)
(* The query methods, as functions of what the list RPC answered.          *)
(* rpc is [list, err]: the records and the error of the RPC call.          *)
(***************************************************************************)

\* for _, cont := range containers { if strings.HasPrefix(cont.Names, prefix) {...} }
RECURSIVE RangeContainers(_, _, _)
RangeContainers(conts, prefix, ret) ==
  IF conts = <<>> THEN ret
  ELSE RangeContainers(Tail(conts), prefix,
         IF HasPrefix(Head(conts).Names, prefix)
           THEN Append(ret, Head(conts))
           ELSE ret)

\* GetPrefixedContainers as it would be with the error of the list call
\* logged and dropped: the caller sees an empty list and no error
GetPrefixedContainersDropsErr(rpc, prefix) ==
  IF rpc.err # NoErr
    THEN [ret |-> <<>>, err |-> NoErr]
    ELSE [ret |-> RangeContainers(rpc.list, prefix, <<>>), err |-> NoErr]

GetPrefixedContainers(rpc, prefix) ==
  IF rpc.err # NoErr
    THEN [ret |-> <<>>, err |-> rpc.err]
    ELSE [ret |-> RangeContainers(rpc.list, prefix, <<>>), err |-> NoErr]

\* for _, vol := range volumes { if strings.HasPrefix(vol.Name, prefix) {...} }
RECURSIVE RangeVolumes(_, _, _)
RangeVolumes(vols, prefix, ret) ==
  IF vols = <<>> THEN ret
  ELSE RangeVolumes(Tail(vols), prefix,
         IF HasPrefix(Head(vols).Name, prefix)
           THEN Append(ret, Head(vols))
           ELSE ret)

GetPrefixedVolumes(rpc, prefix) ==
  IF rpc.err # NoErr
    THEN [ret |-> <<>>, err |-> rpc.err]
    ELSE [ret |-> RangeVolumes(rpc.list, prefix, <<>>), err |-> rpc.err]

\* FindPrefixedContainer as it would be with the test len(containers) == 0:
\* the first of several matches is returned
FindPrefixedContainerFirst(rpc, prefixedName) ==
  LET got == GetPrefixedContainers(rpc, prefixedName) IN
  IF got.err # NoErr
    THEN [cont |-> EmptyContainer, err |-> got.err]
    ELSE IF Len(got.ret) = 0
      THEN [cont |-> EmptyContainer, err |-> NotFoundErr(prefixedName)]
      ELSE [cont |-> got.ret[1], err |-> NoErr]

FindPrefixedContainer(rpc, prefixedName) ==
  LET got == GetPrefixedContainers(rpc, prefixedName) IN
  IF got.err # NoErr
    THEN [cont |-> EmptyContainer, err |-> got.err]
    ELSE IF Len(got.ret) # 1
      THEN [cont |-> EmptyContainer, err |-> NotFoundErr(prefixedName)]
      ELSE [cont |-> got.ret[1], err |-> NoErr]

\* RemoveVolumesRequest as it would be with the volumes named by their
\* mount points: volumeNames = append(volumeNames, vol.MountPoint)
RemoveVolumesRequestByMountPoint(vols) ==
  [Volumes |-> [i \in 1..Len(vols) |-> vols[i].MountPoint], Force |-> TRUE]

\* volumeNames = append(volumeNames, vol.Name) for each vol; one VolumeRemove
\* request with Force: true
RemoveVolumesRequest(vols) ==
  [Volumes |-> [i \in 1..Len(vols) |-> vols[i].Name], Force |-> TRUE]

(***************************************************************************)
(* The engine behind the connection: the containers and volumes it holds,  *)
(* and the answers of its list calls.                                      *)
(***************************************************************************)

NoQuery == [op |-> "none", prefix |-> <<>>, list |-> <<>>, rpcErr |-> NoErr,
            ret |-> <<>>, cont |-> EmptyContainer, err |-> NoErr]
NoRemove == [Volumes |-> <<>>, Force |-> FALSE]
NoRemoval == [given |-> <<>>, before |-> <<>>, calls |-> <<>>]

\* seq with elem put in at position i (1 .. Len(seq) + 1)
InsertAt(seq, i, elem) == SubSeq(seq, 1, i - 1) \o <<elem>> \o SubSeq(seq, i, Len(seq))
\* seq without its i-th element
RemoveAt(seq, i) == SubSeq(seq, 1, i - 1) \o SubSeq(seq, i + 1, Len(seq))

\* name begins with prefix, character by character
StartsWith(name, prefix) ==
  \A i \in 1..Len(prefix) : i <= Len(name) /\ name[i] = prefix[i]

\* the positions of list whose name (read by field) begins with prefix
MatchingContainers(list, prefix) ==
  {i \in 1..Len(list) : StartsWith(list[i].Names, prefix)}
MatchingVolumes(list, prefix) ==
  {i \in 1..Len(list) : StartsWith(list[i].Name, prefix)}

QueryStart ==
  /\ containers = <<>>
  /\ volumes = <<>>
  /\ query = NoQuery
  /\ volRemove = NoRemove
  /\ removedSole = {}
  /\ removal = NoRemoval

\* what ListContainers().Call answers: the engine's list, or an error
ListContainersCall == {[list |-> containers, err |-> NoErr], [list |-> <<>>, err |-> RpcErr]}
\* what GetVolumes().Call(ctx, conn, []string{}, true) answers
GetVolumesCall == {[list |-> volumes, err |-> NoErr], [list |-> <<>>, err |-> RpcErr]}

\* hnd.CreateContainer(conf) with conf.Name = name: the engine adds the
\* container; where it shows up in the engine's listing is the engine's choice
CreateContainer(name) ==
  /\ Len(containers) < MaxContainers
  /\ \A i \in 1..Len(containers) : containers[i].Names # name
  /\ \E i \in 1..Len(containers) + 1 :
       containers' = InsertAt(containers, i, Container(name))
  /\ query' = NoQuery
  /\ removedSole' = {}
  /\ UNCHANGED <<volumes, volRemove>>
  /\ removal' = NoRemoval
  /\ UNCHANGED <<tvars, pvars, hvars, svars>>

\* hnd.RemoveContainer(cont, force, removeVolumes): the engine drops the
\* container with cont.Id
RemoveContainer(cont) ==
  /\ \E i \in 1..Len(containers) :
       /\ containers[i].Id = cont.Id
       /\ containers' = RemoveAt(containers, i)
       /\ removedSole' = removedSole \cup
            {prefix \in ContainerPrefixes : MatchingContainers(containers, prefix) = {i}}
  /\ query' = NoQuery
  /\ UNCHANGED <<volumes, volRemove>>
  /\ removal' = NoRemoval
  /\ UNCHANGED <<tvars, pvars, hvars, svars>>

\* hnd.CreateNamedVolume(name)
CreateNamedVolume(name) ==
  /\ Len(volumes) < MaxVolumes
  /\ \A i \in 1..Len(volumes) : volumes[i].Name # name
  /\ \E i \in 1..Len(volumes) + 1 :
       volumes' = InsertAt(volumes, i, Volume(name))
  /\ query' = NoQuery
  /\ volRemove' = NoRemove
  /\ UNCHANGED <<containers, removedSole>>
  /\ removal' = NoRemoval
  /\ UNCHANGED <<tvars, pvars, hvars, svars>>

\* hnd.RemoveVolumes(vols): one forced VolumeRemove request; the engine
\* drops the volumes it names
RemoveVolumes(vols) ==
  /\ volRemove' = RemoveVolumesRequest(vols)
  /\ removal' = [given |-> vols, before |-> volumes, calls |-> <<volRemove'>>]
  /\ volumes' = SelectSeq(volumes,
                  LAMBDA v : \A i \in 1..Len(volRemove'.Volumes) : volRemove'.Volumes[i] # v.Name)
  /\ query' = NoQuery
  /\ UNCHANGED <<containers, removedSole>>
  /\ UNCHANGED <<tvars, pvars, hvars, svars>>

\* the lists of volume records a caller hands to RemoveVolumes: as in the
\* callers, records that carry the name only or records taken from a listing
RemoveArgs ==
  {<<v>> : v \in {Volume(n) : n \in VolumeNames}}
    \cup {<<Volume(m), Volume(n)>> : m, n \in {<<"v", "1">>, <<"v", "2">>}}

\* a caller runs hnd.GetPrefixedContainers(prefix)
QueryContainers(prefix) ==
  /\ \E rpc \in ListContainersCall :
       LET got == GetPrefixedContainers(rpc, prefix) IN
       query' = [op |-> "GetPrefixedContainers", prefix |-> prefix,
                 list |-> rpc.list, rpcErr |-> rpc.err,
                 ret |-> got.ret, cont |-> EmptyContainer, err |-> got.err]
  /\ UNCHANGED <<containers, volumes, volRemove, removedSole>>
  /\ removal' = NoRemoval
  /\ UNCHANGED <<tvars, pvars, hvars, svars>>

\* a caller runs hnd.GetPrefixedVolumes(prefix)
QueryVolumes(prefix) ==
  /\ \E rpc \in GetVolumesCall :
       LET got == GetPrefixedVolumes(rpc, prefix) IN
       query' = [op |-> "GetPrefixedVolumes", prefix |-> prefix,
                 list |-> rpc.list, rpcErr |-> rpc.err,
                 ret |-> got.ret, cont |-> EmptyContainer, err |-> got.err]
  /\ UNCHANGED <<containers, volumes, volRemove, removedSole>>
  /\ removal' = NoRemoval
  /\ UNCHANGED <<tvars, pvars, hvars, svars>>

\* a caller runs hnd.FindPrefixedContainer(prefixedName)
QueryFind(prefixedName) ==
  /\ \E rpc \in ListContainersCall :
       LET got == FindPrefixedContainer(rpc, prefixedName) IN
       query' = [op |-> "FindPrefixedContainer", prefix |-> prefixedName,
                 list |-> rpc.list, rpcErr |-> rpc.err,
                 ret |-> <<>>, cont |-> got.cont, err |-> got.err]
  /\ UNCHANGED <<containers, volumes, volRemove, removedSole>>
  /\ removal' = NoRemoval
  /\ UNCHANGED <<tvars, pvars, hvars, svars>>

NextQuery ==
  \/ \E name \in ContainerNames : CreateContainer(name)
  \/ \E i \in 1..Len(containers) : RemoveContainer(containers[i])
  \/ \E name \in VolumeNames : CreateNamedVolume(name)
  \/ \E vols \in RemoveArgs : RemoveVolumes(vols)
  \/ \E prefix \in ContainerPrefixes : QueryContainers(prefix)
  \/ \E prefix \in VolumePrefixes : QueryVolumes(prefix)
  \/ \E prefix \in ContainerPrefixes : QueryFind(prefix)

(***************************************************************************)
(* Handle.PullImage                                                        *)
(***************************************************************************)

\* tries := []int{0, 1, 2, 6}
tries == <<0, 1, 2, 6>>

Refs == {"img1", "img2"}

\* error values of PullImage: nil, the error of one failed RPC (logged, not
\* returned), and fmt.Errorf("failed to download %s %d times, giving up.", ref, len(tries))
PullRpcErr == [kind |-> "rpc", ref |-> "", times |-> 0]
PullNil == [kind |-> "nil", ref |-> "", times |-> 0]
GiveUpErr(r, n) == [kind |-> "giveup", ref |-> r, times |-> n]
PullNone == [kind |-> "none", ref |-> "", times |-> 0]

PullIdle ==
  /\ pullPc = "idle"
  /\ ref = ""
  /\ plan = <<>>
  /\ idx = 1
  /\ rpcs = 0
  /\ slept = <<>>
  /\ pullErr = PullNone

\* before a run of PullImage: the reference to pull and the answers the
\* engine will give, attempt by attempt, are the environment's choice
PullStart ==
  /\ pullPc = "idle"
  /\ ref \in Refs
  /\ plan \in [1..Len(tries) + 1 -> {PullNil, PullRpcErr}]
  /\ idx = 1
  /\ rpcs = 0
  /\ slept = <<>>
  /\ pullErr = PullNone

\* a caller invokes hnd.PullImage(ref, out): the loop is entered, or, with no
\* element of tries left, the give-up error is returned
PullImageLoop ==
  /\ pullPc \in {"idle", "next"}
  /\ IF idx <= Len(tries)
       THEN pullPc' = "sleep" /\ UNCHANGED pullErr
       ELSE pullPc' = "done" /\ pullErr' = GiveUpErr(ref, Len(tries))
  /\ UNCHANGED <<ref, plan, idx, rpcs, slept>>
  /\ UNCHANGED <<tvars, qvars, hvars, svars>>

\* PullSleep as it would be with the loop index taken for the delay:
\* time.Sleep(time.Duration(idx) * time.Second), idx counting from 0
PullSleepByIndex ==
  /\ pullPc = "sleep"
  /\ slept' = Append(slept, idx - 1)
  /\ pullPc' = "call"
  /\ UNCHANGED <<ref, plan, idx, rpcs, pullErr>>
  /\ UNCHANGED <<tvars, qvars, hvars, svars>>

\* time.Sleep(time.Duration(i) * time.Second)
PullSleep ==
  /\ pullPc = "sleep"
  /\ slept' = Append(slept, tries[idx])
  /\ pullPc' = "call"
  /\ UNCHANGED <<ref, plan, idx, rpcs, pullErr>>
  /\ UNCHANGED <<tvars, qvars, hvars, svars>>

\* PullCall as it would be without the return after a successful call: the
\* loop goes on to the next element of tries
PullCallGoesOn ==
  /\ pullPc = "call"
  /\ rpcs' = rpcs + 1
  /\ idx' = idx + 1
  /\ pullPc' = "next"
  /\ UNCHANGED <<ref, plan, slept, pullErr>>
  /\ UNCHANGED <<tvars, qvars, hvars, svars>>

\* _, err := iopodman.PullImage().Call(ctx, conn, ref);
\* if err != nil { continue }; return nil
PullCall ==
  /\ pullPc = "call"
  /\ rpcs' = rpcs + 1
  /\ IF plan[rpcs + 1] # PullNil
       THEN /\ idx' = idx + 1
            /\ pullPc' = "next"
            /\ UNCHANGED pullErr
       ELSE /\ pullErr' = PullNil
            /\ pullPc' = "done"
            /\ UNCHANGED idx
  /\ UNCHANGED <<ref, plan, slept>>
  /\ UNCHANGED <<tvars, qvars, hvars, svars>>

NextPull ==
  \/ PullImageLoop
  \/ PullSleep
  \/ PullCall

(***************************************************************************)
(* The Handle: its construction, and the calls that are one RPC each.      *)
(***************************************************************************)

\* const DefaultSocket
DefaultSocket == "unix:/run/podman/io.podman"

\* what callers hand to NewHandle: a context, and no address of their own
\* ("") or one
Ctxs == {"ctx"}
Sockets == {"", "unix:/tmp/podman.sock"}

\* the answers of one RPC that carries no result the model keeps
RpcAnswers == {Nil, "rpcErr"}

NoHandle == [ctx |-> None, conn |-> None]
NoCall == [method |-> None, ctx |-> None, conn |-> None, arg |-> <<>>, err |-> None]

\* before NewHandle
HandleStart ==
  /\ hnd = NoHandle
  /\ connState = "none"
  /\ given = None
  /\ dials = <<>>
  /\ newErr = None
  /\ lastCall = NoCall

\* a handle NewHandle has returned without error to a caller that asked
\* for no address of its own
HandleReady ==
  /\ hnd = [ctx |-> "ctx", conn |-> "conn"]
  /\ connState = "open"
  /\ given = ""
  /\ dials = <<DefaultSocket>>
  /\ newErr = Nil
  /\ lastCall = NoCall

\* NewHandle, called as the callers call it, with a context and a socket
\* address: one varlink.NewConnection(ctx, DefaultSocket), and the Handle
\* and the error of that call returned as they are
NewHandle(ctx, socket) ==
  /\ newErr = None
  /\ given' = socket
  /\ dials' = Append(dials, DefaultSocket)
  /\ \E answer \in {Nil, "connErr"} :
       /\ newErr' = answer
       /\ IF answer = Nil
            THEN hnd' = [ctx |-> ctx, conn |-> "conn"] /\ connState' = "open"
            ELSE hnd' = [ctx |-> ctx, conn |-> Nil] /\ connState' = "none"
  /\ UNCHANGED lastCall
  /\ UNCHANGED <<tvars, qvars, pvars, svars>>

\* one RPC over the handle's context and connection, its error returned
Call(method, arg) ==
  /\ \E answer \in RpcAnswers :
       lastCall' = [method |-> method, ctx |-> hnd.ctx, conn |-> hnd.conn,
                    arg |-> arg, err |-> answer]
  /\ UNCHANGED <<hnd, connState, given, dials, newErr>>
  /\ UNCHANGED <<tvars, qvars, pvars, svars>>

\* hnd.Exec(container, args, out)
Exec(container) == Call("ExecContainer", container)

\* hnd.StopContainer(name, timeout)
StopContainer(name) == Call("StopContainer", name)

\* hnd.StartContainer(contID)
StartContainer(contID) == Call("StartContainer", contID)

\* hnd.WaitContainer(name, interval)
WaitContainer(name) == Call("WaitContainer", name)

NextLifecycle ==
  \/ \E name \in ContainerNames : Exec(name)
  \/ \E name \in ContainerNames : StopContainer(name)
  \/ \E name \in ContainerNames : StartContainer(Container(name).Id)
  \/ \E name \in ContainerNames : WaitContainer(name)

\* a caller is about to run PullImage: the reference and the engine's
\* answers are chosen as in PullStart
PullImageArgs ==
  /\ pullPc = "idle"
  /\ plan = <<>>
  /\ ref' \in Refs
  /\ plan' \in [1..Len(tries) + 1 -> {PullNil, PullRpcErr}]
  /\ UNCHANGED <<pullPc, idx, rpcs, slept, pullErr>>
  /\ UNCHANGED <<tvars, qvars, hvars, svars>>

\* The methods share nothing but the handle, so a run of the handle takes
\* up one kind of work and stays with it: Terminal, the engine calls, PullImage
\* or the single-RPC calls.
TerminalUnused == call = 0
PullUnused == plan = <<>>
LifecycleUnused == lastCall = NoCall

NextHandle ==
  \/ \E ctx \in Ctxs, socket \in Sockets : NewHandle(ctx, socket)
  \/ /\ newErr = Nil /\ QueryStart /\ PullUnused /\ LifecycleUnused
     /\ NextTerminal
  \/ /\ newErr = Nil /\ TerminalUnused /\ PullUnused /\ LifecycleUnused
     /\ NextQuery
  \/ /\ newErr = Nil /\ TerminalUnused /\ QueryStart /\ LifecycleUnused
     /\ PullImageArgs \/ (~PullUnused /\ NextPull)
  \/ /\ newErr = Nil /\ TerminalUnused /\ QueryStart /\ PullUnused
     /\ NextLifecycle

SprintIdle == sprintArgs = [methodname |-> None, err |-> None] /\ sprinted = None

(***************************************************************************)
(* SprintError.  A text is a sequence of pieces: the literal parts of the  *)
(* format strings are one piece each, the texts that come with the         *)
(* arguments are spelled character by character.  An error value carries   *)
(* its dynamic type as %T prints it, its identity (ptr), the text of its   *)
(* Error() method (msg), and the fields of its type.                       *)
(***************************************************************************)

\* the sentinels io.EOF and io.ErrUnexpectedEOF, and the nil error
EOF == [type |-> "*errors.errorString", ptr |-> "io.EOF", msg |-> <<"E", "O", "F">>]
ErrUnexpectedEOF ==
  [type |-> "*errors.errorString", ptr |-> "io.ErrUnexpectedEOF",
   msg |-> <<"unexpected ", "E", "O", "F">>]
NilError == [type |-> "<nil>", ptr |-> "nil", msg |-> <<"<nil>">>]

\* the texts that fields and method names take
Texts == {<<"x">>, <<"x", "y">>}
Methods == {<<"P">>, <<"P", "s">>, <<"x">>}

\* []PodContainerErrorData values
ErrorsData == {<<>>, <<[Containerid |-> <<"c">>, Reason |-> <<"x">>]>>}

\* the error values handed to SprintError: the error types of the bindings
\* and of varlink, the sentinels, nil, and errors of other types
StructuredErrors ==
  {[type |-> "*iopodman.ImageNotFound", ptr |-> "p", msg |-> <<"io.podman.ImageNotFound">>, Id |-> t] : t \in Texts}
  \cup {[type |-> "*iopodman.ContainerNotFound", ptr |-> "p", msg |-> <<"io.podman.ContainerNotFound">>, Id |-> t] : t \in Texts}
  \cup {[type |-> "*iopodman.NoContainerRunning", ptr |-> "p", msg |-> <<"io.podman.NoContainerRunning">>]}
  \cup {[type |-> "*iopodman.PodNotFound", ptr |-> "p", msg |-> <<"io.podman.PodNotFound">>, Name |-> t] : t \in Texts}
  \cup {[type |-> "*iopodman.PodContainerError", ptr |-> "p", msg |-> <<"io.podman.PodContainerError">>,
         Podname |-> t, Errors |-> d] : t \in Texts, d \in ErrorsData}
  \cup {[type |-> "*iopodman.NoContainersInPod", ptr |-> "p", msg |-> <<"io.podman.NoContainersInPod">>, Name |-> t] : t \in Texts}
  \cup {[type |-> "*iopodman.ErrorOccurred", ptr |-> "p", msg |-> <<"io.podman.ErrorOccurred">>, Reason |-> t] : t \in Texts}
  \cup {[type |-> "*iopodman.RuntimeError", ptr |-> "p", msg |-> <<"io.podman.RuntimeError">>, Reason |-> t] : t \in Texts}
  \cup {[type |-> "*varlink.InvalidParameter", ptr |-> "p", msg |-> <<"org.varlink.service.InvalidParameter">>, Parameter |-> t] : t \in Texts}
  \cup {[type |-> "*varlink.MethodNotFound", ptr |-> "p", msg |-> <<"org.varlink.service.MethodNotFound">>, Method |-> t] : t \in Texts}
  \cup {[type |-> "*varlink.MethodNotImplemented", ptr |-> "p", msg |-> <<"org.varlink.service.MethodNotImplemented">>, Method |-> t] : t \in Texts}
  \cup {[type |-> "*varlink.InterfaceNotFound", ptr |-> "p", msg |-> <<"org.varlink.service.InterfaceNotFound">>, Interface |-> t] : t \in Texts}
  \cup {[type |-> "*varlink.Error", ptr |-> "p", msg |-> t, Parameters |-> q] : t \in Texts, q \in Texts \cup {<<"<nil>">>}}

OtherErrors ==
  {EOF, ErrUnexpectedEOF, NilError,
   [type |-> "*errors.errorString", ptr |-> "p", msg |-> <<"E", "O", "F">>],
   [type |-> "*errors.errorString", ptr |-> "p", msg |-> <<"x">>],
   [type |-> "*os.PathError", ptr |-> "p", msg |-> <<"x", "y">>]}

ErrorValues == StructuredErrors \cup OtherErrors

\* %v of a []PodContainerErrorData
RECURSIVE SprintErrorsData(_)
SprintErrorsData(d) ==
  IF d = <<>> THEN <<>>
  ELSE <<"{">> \o Head(d).Containerid \o <<" ">> \o Head(d).Reason \o <<"}">>
         \o (IF Len(d) > 1 THEN <<" ">> ELSE <<>>) \o SprintErrorsData(Tail(d))

\* fmt.Fprintf(buf, "'%v' <label>='%s'\n", e, field)
Labelled(e, label, text) == <<"'">> \o e.msg \o <<"' ", label, "='">> \o text \o <<"'\n">>

\* SprintError as it would be without the type switch and with the
\* sentinels told by their text: err.Error() == io.EOF.Error()
SprintErrorByText(methodname, err) ==
  <<"Error calling ">> \o methodname \o <<": ">> \o
  (IF err.msg = EOF.msg THEN <<"Connection closed\n">>
   ELSE IF err.msg = ErrUnexpectedEOF.msg THEN <<"Connection aborted\n">>
   ELSE <<err.type, " - '">> \o err.msg \o <<"'\n">>)

SprintError(methodname, err) ==
  <<"Error calling ">> \o methodname \o <<": ">> \o
  (CASE err.type = "*iopodman.ImageNotFound" -> Labelled(err, "name", err.Id)
     [] err.type = "*iopodman.ContainerNotFound" -> Labelled(err, "name", err.Id)
     [] err.type = "*iopodman.NoContainerRunning" -> <<"'">> \o err.msg \o <<"'\n">>
     [] err.type = "*iopodman.PodNotFound" -> Labelled(err, "name", err.Name)
     [] err.type = "*iopodman.PodContainerError" ->
          <<"'">> \o err.msg \o <<"' ", "podname", "='">> \o err.Podname
            \o <<"' ", "errors", "='", "[">> \o SprintErrorsData(err.Errors) \o <<"]", "'\n">>
     [] err.type = "*iopodman.NoContainersInPod" -> Labelled(err, "name", err.Name)
     [] err.type = "*iopodman.ErrorOccurred" -> Labelled(err, "reason", err.Reason)
     [] err.type = "*iopodman.RuntimeError" -> Labelled(err, "reason", err.Reason)
     [] err.type = "*varlink.InvalidParameter" -> Labelled(err, "parameter", err.Parameter)
     [] err.type = "*varlink.MethodNotFound" -> Labelled(err, "method", err.Method)
     [] err.type = "*varlink.MethodNotImplemented" -> Labelled(err, "method", err.Method)
     [] err.type = "*varlink.InterfaceNotFound" -> Labelled(err, "interface", err.Interface)
     [] err.type = "*varlink.Error" -> Labelled(err, "parameters", err.Parameters)
     [] OTHER ->
          IF err = EOF THEN <<"Connection closed\n">>
          ELSE IF err = ErrUnexpectedEOF THEN <<"Connection aborted\n">>
          ELSE <<err.type, " - '">> \o err.msg \o <<"'\n">>)

\* before a call of SprintError: its arguments are the caller's choice
SprintStart ==
  /\ sprintArgs \in [methodname : Methods, err : ErrorValues]
  /\ sprinted = None

\* the call SprintError(methodname, err)
Sprint ==
  /\ sprinted = None
  /\ sprinted' = SprintError(sprintArgs.methodname, sprintArgs.err)
  /\ UNCHANGED sprintArgs
  /\ UNCHANGED <<tvars, qvars, pvars, hvars>>

NextSprint == Sprint

(***************************************************************************)
(* The specifications.                                                     *)
(***************************************************************************)

InitTerminal == TerminalStart /\ QueryStart /\ PullIdle /\ HandleReady /\ SprintIdle
SpecTerminal == InitTerminal /\ [][NextTerminal]_vars

InitQuery == TerminalStart /\ QueryStart /\ PullIdle /\ HandleReady /\ SprintIdle
SpecQuery == InitQuery /\ [][NextQuery]_vars

InitPull == TerminalStart /\ QueryStart /\ PullStart /\ HandleReady /\ SprintIdle
SpecPull == InitPull /\ [][NextPull]_vars

InitHandle == TerminalStart /\ QueryStart /\ PullIdle /\ HandleStart /\ SprintIdle
SpecHandle == InitHandle /\ [][NextHandle]_vars

InitSprint == TerminalStart /\ QueryStart /\ PullIdle /\ HandleReady /\ SprintStart
SpecSprint == InitSprint /\ [][NextSprint]_vars

(***************************************************************************)
(* Properties of Terminal.                                                 *)
(***************************************************************************)

\* the calling goroutine of invocation c performed step name
Did(c, name) == \E i \in 1..Len(trace[c]) : trace[c][i] = name

\* the preparation steps of Terminal in program order
PrepOrder == <<"attach", "sockets", "open", "makeraw", "go1", "go2", "go3", "go4">>
PrepSteps == {PrepOrder[i] : i \in 1..Len(PrepOrder)}
IsPrep(name) == name \in PrepSteps

\* C1: once the streaming phase has started, the value Terminal returns is
\* the value of whichever of the four goroutines reached its send (or, for
\* the interrupt listener, its close) first: a clean r2l end first gives
\* nil, an exec failure first gives that exec error.
C1_FirstCompleterDecides ==
  \A c \in Calls :
    (Returned(c) /\ Did(c, "received")) =>
       /\ first[c] # None
       /\ result[c] = val[c][first[c]]

\* C2: an invocation that has returned has closed the socket it opened and
\* has restored the terminal mode it saved, on every exit path.
C2_TornDownOnReturn ==
  \A c \in Calls :
    Returned(c) =>
       /\ attached[c] # "open"
       /\ rawSet[c] => restored[c]
       /\ (rawSet[c] /\ c = call) => termMode = state[c]

\* C2 witness: an invocation that opened the socket and set raw mode has
\* returned after streaming
C2_Witness ==
  \E c \in Calls :
    /\ Returned(c)
    /\ rawSet[c]
    /\ attached[c] = "closed"
    /\ Did(c, "received")

\* C3: every goroutine of the streaming phase writes exactly one value to
\* errChan: none writes twice, and one that has finished has written once.
C3_EachActivityWritesOnce ==
  \A c \in Calls : \A a \in ActivitySet :
    /\ sends[c][a] <= 1
    /\ act[c][a] = "done" => sends[c][a] = 1

C10_PrepInOrderAndAbort ==
  \A c \in Calls :
    LET prep == SelectSeq(trace[c], IsPrep) IN
    /\ prep = SubSeq(PrepOrder, 1, Len(prep))
    /\ result[c] \in {"attachErr", "socketsErr", "openErr"} =>
         /\ Returned(c)
         /\ trace[c] = CASE result[c] = "attachErr" -> <<"attach">>
                         [] result[c] = "socketsErr" -> <<"attach", "sockets">>
                         [] result[c] = "openErr" -> <<"attach", "sockets", "open">>
         /\ attached[c] = "unopened"
         /\ ~rawSet[c] /\ state[c] = None
         /\ \A a \in ActivitySet : act[c][a] = "none"
         /\ ~execIssued[c]

\* C10 witness: an invocation ended by a failing open
C10_Witness ==
  \E c \in Calls : Returned(c) /\ result[c] = "openErr"


(***************************************************************************)
(* Properties of PullImage.                                                *)
(***************************************************************************)

RECURSIVE Sum(_)
Sum(seq) == IF seq = <<>> THEN 0 ELSE Head(seq) + Sum(Tail(seq))

\* the attempts (among the first 4) the engine answers without error
Successes == {k \in 1..4 : plan[k] = PullNil}
FirstSuccess == CHOOSE k \in Successes : \A j \in Successes : k <= j

\* C5: with the first success at attempt k (1 <= k <= 4) PullImage makes
\* exactly k RPC calls and returns nil, never calling again after a success;
\* with 4 failures it makes exactly 4 calls and returns the give-up error
\* naming the reference and the count 4, not the error of an attempt.
C5_AttemptsAndResult ==
  /\ rpcs <= 4
  /\ Successes # {} => rpcs <= FirstSuccess
  /\ pullPc = "done" =>
       IF Successes # {}
         THEN rpcs = FirstSuccess /\ pullErr = PullNil
         ELSE rpcs = 4 /\ pullErr = GiveUpErr(ref, 4)

\* C5 witness: three failures, then the fourth attempt succeeds
C5_Witness ==
  /\ pullPc = "done"
  /\ rpcs = 4
  /\ pullErr = PullNil
  /\ \A k \in 1..3 : plan[k] = PullRpcErr

\* C6: the delay before attempt i is the i-th of 0, 1, 2, 6 seconds; every
\* attempt has had its delay, a delay is pending only right before its
\* attempt and none follows the last attempt; the delays sum to at most 9
\* seconds and to exactly 9 once 4 attempts were made.
C6_DelaySchedule ==
  /\ Len(slept) <= 4
  /\ slept = SubSeq(<<0, 1, 2, 6>>, 1, Len(slept))
  /\ Len(slept) = IF pullPc = "call" THEN rpcs + 1 ELSE rpcs
  /\ Sum(slept) <= 9
  /\ rpcs = 4 => Sum(slept) = 9

\* C6 witness: a run of four failing attempts has ended, 9 seconds slept
C6_Witness ==
  /\ pullPc = "done"
  /\ rpcs = 4
  /\ pullErr = GiveUpErr(ref, 4)
  /\ Sum(slept) = 9

(***************************************************************************)
(* Properties of the prefix queries.                                       *)
(***************************************************************************)

\* C7: when the list call succeeds, FindPrefixedContainer(prefix) returns
\* the one listed container whose name starts with prefix if there is
\* exactly one, and otherwise fails with the error naming prefix and returns
\* no container; so looking up a prefix whose only match was removed fails.
C7_FindExactlyOne ==
  (query.op = "FindPrefixedContainer" /\ query.rpcErr = NoErr) =>
    LET M == MatchingContainers(query.list, query.prefix) IN
    /\ query.list = containers
    /\ IF Cardinality(M) = 1
         THEN /\ query.err = NoErr
              /\ \A i \in M : query.cont = query.list[i]
         ELSE /\ query.err = NotFoundErr(query.prefix)
              /\ query.cont = EmptyContainer
    /\ query.prefix \in removedSole => query.err # NoErr

\* C7 witness: a lookup by a prefix whose only match was removed has failed,
\* with another container still present
C7_Witness ==
  /\ query.op = "FindPrefixedContainer"
  /\ query.rpcErr = NoErr
  /\ query.prefix \in removedSole
  /\ query.err = NotFoundErr(query.prefix)
  /\ Len(containers) > 0

\* ret holds exactly the records of list at the positions M, in list order
IsSubSequenceAt(ret, list, M) ==
  /\ Len(ret) = Cardinality(M)
  /\ \E f \in [1..Len(ret) -> M] :
       /\ \A j, k \in 1..Len(ret) : j < k => f[j] < f[k]
       /\ \A k \in 1..Len(ret) : ret[k] = list[f[k]]

\* C8: when the list call succeeds, GetPrefixedContainers and
\* GetPrefixedVolumes return, without error, exactly the listed records
\* whose name starts with prefix (case-sensitively), each once, in the
\* order of the engine's list.
C8_PrefixedIsFilteredList ==
  /\ (query.op = "GetPrefixedContainers" /\ query.rpcErr = NoErr) =>
       /\ query.list = containers
       /\ query.err = NoErr
       /\ IsSubSequenceAt(query.ret, query.list,
                          MatchingContainers(query.list, query.prefix))
  /\ (query.op = "GetPrefixedVolumes" /\ query.rpcErr = NoErr) =>
       /\ query.list = volumes
       /\ query.err = NoErr
       /\ IsSubSequenceAt(query.ret, query.list,
                          MatchingVolumes(query.list, query.prefix))

\* C8 witness: two volumes listed, the first does not match and is left
\* out, the second is returned
C8_Witness ==
  /\ query.op = "GetPrefixedVolumes"
  /\ query.rpcErr = NoErr
  /\ Len(query.list) = 2
  /\ ~StartsWith(query.list[1].Name, query.prefix)
  /\ query.ret = <<query.list[2]>>

\* the engine holds exactly the two containers named "a" and "a-1", and the
\* last operation was a lookup that listed them
TwoContainersAandA1 ==
  /\ Len(containers) = 2
  /\ {containers[i].Names : i \in 1..2} = {<<"a">>, <<"a", "-", "1">>}
  /\ query.op = "FindPrefixedContainer"
  /\ query.rpcErr = NoErr

\* C9 as stated: with exactly the containers "a" and "a-1" present,
\* FindPrefixedContainer("a") fails and FindPrefixedContainer("a-1") fails too.
C9_BothLookupsFail ==
  (TwoContainersAandA1 /\ query.prefix \in {<<"a">>, <<"a", "-", "1">>}) =>
     query.err # NoErr

\* C9 as amended: with exactly the containers "a" and "a-1" present,
\* FindPrefixedContainer("a") fails as ambiguous, and
\* FindPrefixedContainer("a-1") succeeds and returns the container "a-1".
C9_OnlyLookupOfAFails ==
  TwoContainersAandA1 =>
    /\ query.prefix = <<"a">> =>
         query.err = NotFoundErr(<<"a">>) /\ query.cont = EmptyContainer
    /\ query.prefix = <<"a", "-", "1">> =>
         query.err = NoErr /\ query.cont = Container(<<"a", "-", "1">>)

\* C9 witness: the lookup of "a-1" has succeeded beside the container "a"
C9_Witness ==
  /\ TwoContainersAandA1
  /\ query.prefix = <<"a", "-", "1">>
  /\ query.err = NoErr

(***************************************************************************)
(* Properties of Terminal: the channel, the abandoned goroutines, the      *)
(* teardown.                                                               *)
(***************************************************************************)

\* C15: in no interleaving does a goroutine execute a send on errChan, or
\* sit parked in one, when the channel is or becomes closed: no goroutine
\* panics and the process does not die of it, whether or not Terminal has
\* returned.
C15_NoSendOnClosedChannel ==
  /\ ~crashed
  /\ \A c \in Calls : \A a \in ActivitySet : act[c][a] # "panic"

\* C16: of the sends on errChan at most one ever completes, and a goroutine
\* that has executed its send without being the one received from is
\* parked in the channel's queue and stays there.
C16_LosersStayBlocked ==
  \A c \in Calls :
    /\ Cardinality({a \in Senders : act[c][a] = "done"}) <= 1
    /\ \A a \in Senders :
         (sends[c][a] > 0 /\ act[c][a] # "done") =>
            /\ act[c][a] = "blocked"
            /\ \E i \in 1..Len(errChan[c].sendq) : errChan[c].sendq[i] = a

\* C17: once a goroutine of an invocation has reached its send or close,
\* the invocation is not left unable to return: as long as the caller is
\* still inside Terminal, some step of the program is possible.
C17_CompletionLeadsToReturn ==
  \A c \in Calls :
    (c = call /\ first[c] # None /\ ~Returned(c)) => ENABLED NextTerminal

\* the steps of invocation c from its receive on
FromReceive(c) ==
  LET n == CHOOSE i \in 1..Len(trace[c]) : trace[c][i] = "received"
  IN SubSeq(trace[c], n, Len(trace[c]))

\* C18: whichever goroutine produced the value, after the receive the
\* terminal mode is restored first and the socket is closed second, and
\* both have happened when the caller sees the result.
C18_RestoreThenClose ==
  \A c \in Calls :
    IF Did(c, "received")
      THEN /\ FromReceive(c) \in {<<"received">>, <<"received", "restore">>,
                                  <<"received", "restore", "close">>}
           /\ restored[c] = Did(c, "restore")
           /\ (attached[c] = "closed") = Did(c, "close")
           /\ Returned(c) => (restored[c] /\ attached[c] = "closed")
      ELSE ~restored[c] /\ ~Did(c, "restore")

\* an invocation that received the exec goroutine's error has returned
C18_Witness ==
  /\ Returned(1)
  /\ first[1] = "exec"
  /\ result[1] = "execErr"
  /\ FromReceive(1) = <<"received", "restore", "close">>

\* terminal.MakeRaw failed in invocation c
RawFailed(c) == Did(c, "makeraw") /\ ~rawSet[c]

\* C19: when putting the terminal into raw mode fails, Terminal returns
\* that error, closes the socket it opened before it returns, performs no
\* restore, starts no goroutine and issues no exec RPC.
C19_RawFailureCleansUp ==
  \A c \in Calls :
    RawFailed(c) =>
      /\ result[c] = "rawErr"
      /\ ~restored[c]
      /\ state[c] = None
      /\ \A a \in ActivitySet : act[c][a] = "none" /\ sends[c][a] = 0
      /\ ~execIssued[c]
      /\ IF Returned(c)
           THEN /\ attached[c] = "closed"
                /\ trace[c] = <<"attach", "sockets", "open", "makeraw", "close">>
           ELSE /\ attached[c] = "open"
                /\ trace[c] = <<"attach", "sockets", "open", "makeraw">>

C19_Witness ==
  /\ RawFailed(1)
  /\ Returned(1)
  /\ attached[1] = "closed"

(***************************************************************************)
(* Properties of RemoveVolumes, and of the queries when the list call      *)
(* fails.                                                                  *)
(***************************************************************************)

\* the names of the volume records vols, in order
NamesOf(vols) == [i \in 1..Len(vols) |-> vols[i].Name]

\* name is one of names
Named(names, name) == \E i \in 1..Len(names) : names[i] = name

\* C12: RemoveVolumes(list) issues exactly one remove call, forced, whose
\* name list is the names of the given records in their order; the volumes
\* it does not name stay as they were and the ones it names are gone: with
\* v1 and v2 in the engine, removing v1 leaves exactly v2.
C12_OneForcedBatchRemove ==
  removal # NoRemoval =>
    /\ Len(removal.calls) = 1
    /\ removal.calls[1].Force
    /\ removal.calls[1].Volumes = NamesOf(removal.given)
    /\ \A i \in 1..Len(volumes) : ~Named(NamesOf(removal.given), volumes[i].Name)
    /\ volumes = SelectSeq(removal.before,
                           LAMBDA v : ~Named(NamesOf(removal.given), v.Name))
    /\ (/\ {removal.before[i].Name : i \in 1..Len(removal.before)}
               = {<<"v", "1">>, <<"v", "2">>}
        /\ NamesOf(removal.given) = <<(<<"v", "1">>)>>)
         => volumes = <<Volume(<<"v", "2">>)>>

\* v1 was removed from an engine that held v1 and v2
C12_Witness ==
  /\ NamesOf(removal.given) = <<(<<"v", "1">>)>>
  /\ Len(removal.before) = 2
  /\ Named(NamesOf(removal.before), <<"v", "1">>)
  /\ Named(NamesOf(removal.before), <<"v", "2">>)
  /\ volumes = <<Volume(<<"v", "2">>)>>

\* C20: when the list call fails, GetPrefixedContainers and
\* GetPrefixedVolumes return an empty list and the error of the call as it
\* is, and FindPrefixedContainer returns that error and the empty
\* container, not the not-found error and not a part of the engine's
\* records, whatever the engine holds.
C20_ListFailurePassedOn ==
  (query.op # "none" /\ query.rpcErr # NoErr) =>
    /\ query.err = query.rpcErr
    /\ query.err.kind = "rpc"
    /\ query.ret = <<>>
    /\ query.cont = EmptyContainer

\* the list call failed under a lookup that the engine's records would
\* have answered with one container
C20_Witness ==
  /\ query.op = "FindPrefixedContainer"
  /\ query.rpcErr = RpcErr
  /\ query.err = RpcErr
  /\ Cardinality(MatchingContainers(containers, query.prefix)) = 1

(***************************************************************************)
(* Properties of the Handle.                                               *)
(***************************************************************************)

\* C11: no operation on a Handle that was constructed without error, whether
\* it succeeds or fails, closes the handle's connection or changes its
\* context and connection fields: the connection is open before and after
\* every step and the Handle is the same value.
C11_HandleLeftAlone ==
  [][newErr = Nil => (connState = "open" /\ connState' = "open" /\ hnd' = hnd)]_vars

\* a Terminal invocation failed on the handle, and the handle is as it was
C11_Witness ==
  /\ newErr = Nil
  /\ connState = "open"
  /\ hnd = [ctx |-> "ctx", conn |-> "conn"]
  /\ Returned(1)
  /\ result[1] = "execErr"
  /\ attached[1] = "closed"

\* C13: NewHandle makes exactly one connection attempt, to the address the
\* caller supplied when it supplied one and to the default address
\* otherwise, and returns the error of that attempt as it is.
C13_DialsSuppliedAddress ==
  newErr # None =>
    /\ dials = <<IF given = "" THEN DefaultSocket ELSE given>>
    /\ newErr \in {Nil, "connErr"}
    /\ (newErr = Nil) = (connState = "open")

(***************************************************************************)
(* Properties of SprintError.                                              *)
(***************************************************************************)

\* part occurs in text as a run of consecutive pieces
Contains(text, part) ==
  \E i \in 0..Len(text) - Len(part) : SubSeq(text, i + 1, i + Len(part)) = part

\* the error types SprintError knows, each with the texts of its fields
FieldTexts(err) ==
  CASE err.type \in {"*iopodman.ImageNotFound", "*iopodman.ContainerNotFound"} -> {err.Id}
    [] err.type \in {"*iopodman.PodNotFound", "*iopodman.NoContainersInPod"} -> {err.Name}
    [] err.type \in {"*iopodman.ErrorOccurred", "*iopodman.RuntimeError"} -> {err.Reason}
    [] err.type = "*iopodman.PodContainerError" ->
         {err.Podname} \cup {err.Errors[i].Containerid : i \in 1..Len(err.Errors)}
           \cup {err.Errors[i].Reason : i \in 1..Len(err.Errors)}
    [] err.type = "*iopodman.NoContainerRunning" -> {}
    [] err.type = "*varlink.InvalidParameter" -> {err.Parameter}
    [] err.type \in {"*varlink.MethodNotFound", "*varlink.MethodNotImplemented"} -> {err.Method}
    [] err.type = "*varlink.InterfaceNotFound" -> {err.Interface}
    [] err.type = "*varlink.Error" -> {err.Parameters}
Recognized(err) == err \in StructuredErrors

\* C14: for every error value SprintError returns a text that is not empty
\* and contains the method name; io.EOF gives "Connection closed" and
\* io.ErrUnexpectedEOF gives "Connection aborted"; an error of a type it
\* knows is rendered with its Error() text and each of its fields; every
\* other error is rendered as its type name and its Error() text.
C14_SprintErrorClassifies ==
  sprinted # None =>
    LET m == sprintArgs.methodname
        e == sprintArgs.err
        head == <<"Error calling ">> \o m \o <<": ">>
    IN /\ sprinted # <<>>
       /\ Contains(sprinted, m)
       /\ SubSeq(sprinted, 1, Len(head)) = head
       /\ sprinted[Len(sprinted)] \in {"'\n", "Connection closed\n", "Connection aborted\n"}
       /\ (e = EOF) = (sprinted = head \o <<"Connection closed\n">>)
       /\ (e = ErrUnexpectedEOF) = (sprinted = head \o <<"Connection aborted\n">>)
       /\ Recognized(e) =>
            /\ Contains(sprinted, e.msg)
            /\ \A t \in FieldTexts(e) : Contains(SubSeq(sprinted, Len(head) + 1, Len(sprinted)), t)
       /\ (~Recognized(e) /\ e \notin {EOF, ErrUnexpectedEOF}) =>
            sprinted = head \o <<e.type, " - '">> \o e.msg \o <<"'\n">>

\* an error that is not io.EOF but reads "EOF" took the fallback rendering
C14_Witness ==
  /\ sprinted # None
  /\ sprintArgs.err.msg = EOF.msg
  /\ sprintArgs.err # EOF
  /\ Contains(sprinted, <<"*errors.errorString">>)
====
